---------------------------- MODULE Spec2Model ----------------------------
(***************************************************************************)
(* HubTrainingSession (src/ultralytics/hub/session.py): the client side of *)
(* the protocol between a training process and the hub.                    *)
(*                                                                         *)
(* The specifications, over one set of variables:                         *)
(*   SpecCtor  the constructor __init__ (lines 17-28), line by line,       *)
(*             against every state of the hub;                             *)
(*   Spec      the operations of a session whose fields are the ones       *)
(*             lines 18-25 assign and whose heartbeat thread runs          *)
(*             _heartbeats (lines 89-101), interleaved with the trainer's  *)
(*             calls; FairSpec adds the scheduler's fairness;              *)
(*   SpecMetrics, SpecUpload  the trainer's metrics calls and checkpoint   *)
(*             uploads (lines 35-64) against a clock;                      *)
(*   SpecOps   every trainer-facing call beside the heartbeat thread.      *)
(***************************************************************************)
EXTENDS Integers, Sequences, FiniteSets, TLC

\* ------------------------------------------------------------------ bounds
MaxModel == 2       \* model ids are 1..MaxModel
MaxAgent == 2       \* agent ids the hub hands out are 1..MaxAgent
MaxValue == 2       \* metric values, map scores and file contents are 1..MaxValue
MaxEpoch == 1       \* epochs are 1..MaxEpoch
MaxTicks == 2       \* the clock advances at most MaxTicks times

ModelIds == 1..MaxModel
AgentIds == 1..MaxAgent
Values   == 1..MaxValue
Metrics  == {"loss", "mAP"}
Auths    == {"api_key", "id_token"}
Channels == {"metrics", "ckpt", "heartbeat"}

\* ------------------------------------------------------------ python values
None    == 0        \* Python's None, for the id-valued attributes
NoValue == 0        \* a key that is not in the metrics_queue dict
NoTimer == -1       \* a key that is not in the t dict

\* The attributes __init__ assigns, in the order of lines 18-25.
InitAttrs ==
    {"agent_id", "model_id", "api_url", "auth_header", "rate_limits", "t",
     "metrics_queue", "alive"}

\* f'{HUB_API_ROOT}/v1/models/{model_id}'
ApiUrl(id) == <<"HUB_API_ROOT", "v1", "models", id>>

\* f'{HUB_API_ROOT}/v1/agent/heartbeat/models/{self.model_id}'
HeartbeatUrl(id) == <<"HUB_API_ROOT", "v1", "agent", "heartbeat", "models", id>>

\* The model id a models URL names (its last path segment).
UrlModelId(url) == url[Len(url)]

\* auth.get_auth_header()
AuthHeader(auth) == [kind |-> auth]
NoHeader == [kind |-> "none"]

\* {'metrics': 3.0, 'ckpt': 900.0, 'heartbeat': 300.0}
RateLimits == [metrics |-> 3, ckpt |-> 900, heartbeat |-> 300]
NoLimits   == [metrics |-> 0, ckpt |-> 0, heartbeat |-> 0]

\* {} for self.t and self.metrics_queue
EmptyTimers == [c \in Channels |-> NoTimer]
EmptyQueue  == [k \in Metrics |-> NoValue]

\* A model record of the hub: its id and its dataset field (data['data']),
\* which is "present", "empty" (falsy) or "absent" (no such key).  NoModel
\* stands for "no record" (Python's None).
Datasets == {"present", "empty", "absent"}
NoModel == [id |-> None, data |-> "absent"]
Record(id, dataset) == [id |-> id, data |-> dataset]

\* What the hub answers to GET /v1/models/{id}.
HubStates ==
    {[kind |-> "offline", rec |-> NoModel], [kind |-> "no_record", rec |-> NoModel]}
    \cup {[kind |-> "record", rec |-> Record(i, d)] : i \in ModelIds, d \in Datasets}

\* An object on which no line of __init__ has run yet.
Blank ==
    [attrs |-> {}, agent_id |-> None, model_id |-> None, api_url |-> <<>>,
     auth_header |-> NoHeader, rate_limits |-> NoLimits, t |-> EmptyTimers,
     metrics_queue |-> EmptyQueue, alive |-> FALSE, model |-> NoModel]

VARIABLES
    self,       \* the HubTrainingSession object: its attributes, and which exist
    arg_id,     \* __init__'s argument model_id
    arg_auth,   \* __init__'s argument auth
    hub,        \* what the hub answers to the model fetch
    pcC,        \* the constructor's position: the line it is about to run
    exc,        \* the exception __init__ raised ("none" while it has not)
    hbLoops,    \* heartbeat threads started so far
    pcH,        \* the heartbeat thread's position
    hbReq,      \* the heartbeat request in flight (NoReq when none is)
    hbOut,      \* what the thread's last smart_request call came back with
    lateBeats,  \* heartbeat requests sent or completed with alive false (history)
    sentAlive,  \* alive was true when the request in flight was sent (history)
    hbElapsed,  \* seconds the thread has slept since its last send (history)
    now,        \* the clock, in seconds
    ticks,      \* how many times the clock has advanced
    mSentAt,    \* when the last metrics request was sent (history)
    cSentAt,    \* when the last epoch checkpoint request was sent (history)
    ucall,      \* the arguments of the last _upload_model call (history)
    ureq,       \* the request the last _upload_model call made, if any
    uatt,       \* the attempts the transport made for it
    raised,     \* the exception the last trainer-facing call let through
    trainer,    \* the events of the trainer that have a hub callback
    mstate,     \* "inflight" while a metrics request is on the wire
    mreq,       \* the payload of the last metrics request (NoPayload before any)
    mres,       \* how the last metrics request ended
    op          \* the operation that took the last step

vars ==
    <<self, arg_id, arg_auth, hub, pcC, exc, hbLoops, pcH, hbReq, hbOut,
      lateBeats, sentAlive, hbElapsed, now, ticks, mSentAt, cSentAt, ucall,
      ureq, uatt, raised, trainer, mstate, mreq, mres, op>>

ctorVars == <<arg_id, arg_auth, hub>>
hbVars   == <<pcH, hbReq, hbOut, lateBeats, sentAlive, hbElapsed>>
mVars    == <<mstate, mreq, mres>>
clkVars  == <<now, ticks>>
upVars   == <<cSentAt, ucall, ureq, uatt>>
trVars   == <<clkVars, mSentAt, upVars, raised, trainer>>

NoReq     == [url |-> <<>>, agentId |-> None, retry |-> 0]
NoReply   == [kind |-> "none", ok |-> FALSE, agentId |-> None]
NoPayload == [type |-> "none", metrics |-> EmptyQueue]

Epochs     == 1..MaxEpoch
NotAFile   == -1   \* what a weights path that is no file holds
NotPassed  == -1   \* a keyword the call leaves to smart_request's default
Exhausts   == {"returned", "raised"}
NoCall ==
    [epoch |-> 0, weights |-> NotAFile, is_best |-> FALSE, map |-> 0,
     final |-> FALSE, transport |-> "none", exhaust |-> "none"]
NoUpload ==
    [url |-> <<>>, data |-> [type |-> "none"],
     files |-> [name |-> "none", content |-> None],
     retry |-> NotPassed, timeout |-> NotPassed, code |-> NotPassed]

\* No trainer-facing call has been made and the clock stands at zero.
TrainerIdle ==
    /\ now = 0
    /\ ticks = 0
    /\ mSentAt = NoTimer
    /\ cSentAt = NoTimer
    /\ ucall = NoCall
    /\ ureq = NoUpload
    /\ uatt = 0
    /\ raised = "none"
    /\ trainer = {}

\* ------------------------------------------------------------- constructor
Assign(s, attr, val) ==
    [[s EXCEPT ![attr] = val] EXCEPT !.attrs = @ \cup {attr}]

\* The state of everything outside the constructor while it runs.
Idle ==
    /\ hbLoops = 0
    /\ pcH = "none"
    /\ hbReq = NoReq
    /\ hbOut = NoReply
    /\ lateBeats = 0
    /\ sentAlive = FALSE
    /\ hbElapsed = NoTimer
    /\ TrainerIdle
    /\ mstate = "idle"
    /\ mreq = NoPayload
    /\ mres = "none"

InitCtor ==
    /\ self = Blank
    /\ arg_id \in ModelIds
    /\ arg_auth \in Auths
    /\ hub \in HubStates
    /\ pcC = "l18"
    /\ exc = "none"
    /\ Idle
    /\ op = "new"

\* One assignment of lines 18-25.
CtorStep(line, attr, val, next) ==
    /\ pcC = line
    /\ self' = Assign(self, attr, val)
    /\ pcC' = next
    /\ op' = "__init__"
    /\ UNCHANGED <<ctorVars, trVars, exc, hbLoops, hbVars, mVars>>

Line18 == CtorStep("l18", "agent_id", None, "l19")
Line19 == CtorStep("l19", "model_id", arg_id, "l20")
Line20 == CtorStep("l20", "api_url", ApiUrl(arg_id), "l21")
Line21 == CtorStep("l21", "auth_header", AuthHeader(arg_auth), "l22")
Line22 == CtorStep("l22", "rate_limits", RateLimits, "l23")
Line23 == CtorStep("l23", "t", EmptyTimers, "l24")
Line24 == CtorStep("l24", "metrics_queue", EmptyQueue, "l25")
Line25 == CtorStep("l25", "alive", TRUE, "l26")

\* def _get_model(self): the parameters a call must bind.
GetModelParams == <<"self">>
\* self._get_model(model_id): the arguments line 26 passes.
Line26Args == <<"self", "model_id">>

\* Python binds a call's positional arguments to the parameters one to one.
Binds(params, args) == Len(args) = Len(params)

\* _get_model's body on object s against hub state h: the exception it raises
\* ("none" when it returns), the value it returns and the object it leaves.
GetModel(s, h) ==
    IF "auth" \notin s.attrs
    THEN [exc |-> "AttributeError", ret |-> NoModel, self |-> s]
    ELSE IF h.kind = "offline"
    THEN [exc |-> "HubOffline", ret |-> NoModel, self |-> s]
    ELSE IF h.kind = "no_record"
    THEN [exc |-> "none", ret |-> NoModel, self |-> s]
    ELSE IF h.rec.data = "absent"
    THEN [exc |-> "KeyError", ret |-> NoModel, self |-> s]
    ELSE IF h.rec.data = "empty"
    THEN [exc |-> "DatasetNotReady", ret |-> NoModel, self |-> s]
    ELSE [exc |-> "none", ret |-> h.rec,
          self |-> [s EXCEPT !.model_id = h.rec.id]]

\* Call26 as it would be had the call bound and self.auth existed: the body
\* of _get_model runs against the hub.
Call26_BodyRuns == GetModel([self EXCEPT !.attrs = @ \cup {"auth"}], hub)

\* The outcome of the call at line 26.
Call26 ==
    IF Binds(GetModelParams, Line26Args)
    THEN GetModel(self, hub)
    ELSE [exc |-> "TypeError", ret |-> NoModel, self |-> self]

\* Lines 26-28: self.model = self._get_model(model_id); self._heartbeats().
\* An exception of the call leaves __init__ at once; otherwise the result is
\* stored and the heartbeat thread is started.
Line26 ==
    /\ pcC = "l26"
    /\ LET o == Call26 IN
         IF o.exc # "none"
         THEN /\ exc' = o.exc
              /\ pcC' = "raised"
              /\ self' = o.self
              /\ UNCHANGED <<hbLoops, pcH>>
         ELSE /\ exc' = "none"
              /\ pcC' = "returned"
              /\ self' = Assign(o.self, "model", o.ret)
              /\ hbLoops' = hbLoops + 1
              /\ pcH' = "l91"
    /\ op' = "__init__"
    /\ UNCHANGED <<ctorVars, trVars, hbReq, hbOut, lateBeats, sentAlive, hbElapsed,
                   mVars>>

\* __del__ with the flag flipped instead of cleared.
DelBody_Toggle(s) == Assign(s, "alive", ~s.alive)

\* __del__ that also forgets the agent id.
DelBody_ClearAgent(s) == [Assign(s, "alive", FALSE) EXCEPT !.agent_id = None]

\* __del__ (lines 30-32): self.alive = False.
DelBody(s) == Assign(s, "alive", FALSE)

\* The object of a constructor that raised is garbage: the collector runs
\* __del__ on it.
Collect ==
    /\ pcC = "raised"
    /\ self' = DelBody(self)
    /\ pcC' = "collected"
    /\ op' = "__del__"
    /\ UNCHANGED <<ctorVars, trVars, exc, hbLoops, hbVars, mVars>>

NextCtor ==
    \/ Line18 \/ Line19 \/ Line20 \/ Line21 \/ Line22 \/ Line23 \/ Line24
    \/ Line25 \/ Line26 \/ Collect

SpecCtor == InitCtor /\ [][NextCtor]_vars

CtorDone == pcC \in {"raised", "returned", "collected"}

\* ----------------------------------------------------------------- session
\* The object lines 18-25 leave behind.
Fields(id, auth) ==
    [attrs |-> InitAttrs, agent_id |-> None, model_id |-> id,
     api_url |-> ApiUrl(id), auth_header |-> AuthHeader(auth),
     rate_limits |-> RateLimits, t |-> EmptyTimers,
     metrics_queue |-> EmptyQueue, alive |-> TRUE, model |-> NoModel]

\* The constructor arrives at line 26 with exactly these fields.
FieldsAgree == pcC = "l26" => self = Fields(arg_id, arg_auth)

\* A session: the fields of lines 18-25 and one heartbeat thread at the top of
\* its loop (line 91), nothing on the wire.  (Under SpecCtor the constructor
\* leaves at line 26; the operations are specified on the object its
\* assignments build, with the thread line 28 is there to start.)
Init ==
    /\ arg_id \in ModelIds
    /\ arg_auth = "api_key"
    /\ self = Fields(arg_id, arg_auth)
    /\ hub = [kind |-> "record", rec |-> Record(arg_id, "present")]
    /\ pcC = "returned"
    /\ exc = "none"
    /\ hbLoops = 1
    /\ pcH = "l91"
    /\ hbReq = NoReq
    /\ hbOut = NoReply
    /\ lateBeats = 0
    /\ sentAlive = FALSE
    /\ hbElapsed = NoTimer
    /\ TrainerIdle
    /\ mstate = "idle"
    /\ mreq = NoPayload
    /\ mres = "none"
    /\ op = "__init__"

\* What smart_request(..., thread=False) comes back with for a heartbeat: a
\* response whose JSON body holds data.agentId, a response whose body holds
\* none (a success without one, or an error response), or the
\* requests.exceptions.ConnectionError line 78 expects of the same call.
HeartbeatReplies ==
    {[kind |-> "response", ok |-> TRUE, agentId |-> a] : a \in AgentIds \cup {None}}
    \cup {[kind |-> "response", ok |-> FALSE, agentId |-> None],
          [kind |-> "ConnectionError", ok |-> FALSE, agentId |-> None]}

\* A heartbeat that did not succeed.
Failed(o) == o.kind = "ConnectionError" \/ ~o.ok

Bump(n) == IF n < 2 THEN n + 1 ELSE n

\* Line 91: while self.alive.
HbTest ==
    /\ pcH = "l91"
    /\ pcH' = IF self.alive THEN "l92" ELSE "stopped"
    /\ op' = "_heartbeats"
    /\ UNCHANGED <<self, ctorVars, trVars, pcC, exc, hbLoops, hbReq, hbOut, lateBeats,
                   sentAlive, hbElapsed, mVars>>

\* Lines 92-99: the request leaves with the model id and the current agent id.
HbSend ==
    /\ pcH = "l92"
    /\ hbReq' = [url |-> HeartbeatUrl(self.model_id), agentId |-> self.agent_id,
                 retry |-> 0]
    /\ hbElapsed' = 0
    /\ sentAlive' = self.alive
    /\ lateBeats' = IF self.alive THEN lateBeats ELSE Bump(lateBeats)
    /\ pcH' = "wait"
    /\ op' = "_heartbeats"
    /\ UNCHANGED <<self, ctorVars, trVars, pcC, exc, hbLoops, hbOut, mVars>>

\* Line 100: self.agent_id = r.json().get('data', {}).get('agentId', None).
Line100(s, o) == [s EXCEPT !.agent_id = o.agentId]

\* Lines 92-100: smart_request comes back.  An exception of the call ends the
\* thread (nothing in _heartbeats catches it); a response is read by line 100.
HbReply ==
    /\ pcH = "wait"
    /\ \E o \in HeartbeatReplies :
         /\ hbOut' = o
         /\ IF o.kind = "ConnectionError"
            THEN /\ pcH' = "crashed"
                 /\ self' = self
            ELSE /\ pcH' = "l101"
                 /\ self' = Line100(self, o)
    /\ hbReq' = NoReq
    /\ lateBeats' = IF ~self.alive /\ sentAlive THEN Bump(lateBeats) ELSE lateBeats
    /\ op' = "_heartbeats"
    /\ UNCHANGED <<ctorVars, trVars, pcC, exc, hbLoops, sentAlive, hbElapsed, mVars>>

\* The sleep takes the metrics interval instead.
SleepFor_Metrics(s) == s.rate_limits.metrics

\* Line 101: the seconds the thread sleeps, self.rate_limits['heartbeat'].
SleepFor(s) == s.rate_limits.heartbeat

\* The loop skips its test after the sleep.
HbWake_NoTest ==
    /\ pcH = "l101"
    /\ pcH' = "l92"
    /\ hbElapsed' = hbElapsed + SleepFor(self)
    /\ op' = "_heartbeats"
    /\ UNCHANGED <<self, ctorVars, trVars, pcC, exc, hbLoops, hbReq, hbOut, lateBeats,
                   sentAlive, mVars>>

\* Line 101: sleep(self.rate_limits['heartbeat']) ends, back to the test.
HbWake ==
    /\ pcH = "l101"
    /\ pcH' = "l91"
    /\ hbElapsed' = hbElapsed + SleepFor(self)
    /\ op' = "_heartbeats"
    /\ UNCHANGED <<self, ctorVars, trVars, pcC, exc, hbLoops, hbReq, hbOut, lateBeats,
                   sentAlive, mVars>>

HbStep == HbTest \/ HbSend \/ HbReply \/ HbWake

\* __del__ (lines 30-32), the session's teardown.
Del ==
    /\ self' = DelBody(self)
    /\ op' = "__del__"
    /\ UNCHANGED <<ctorVars, trVars, pcC, exc, hbLoops, hbVars, mVars>>

\* queueMetrics: the trainer puts a value under a metric's name.
QueueMetrics ==
    /\ \E k \in Metrics, v \in Values :
         self' = [self EXCEPT !.metrics_queue[k] = v]
    /\ op' = "queue_metrics"
    /\ UNCHANGED <<ctorVars, trVars, pcC, exc, hbLoops, hbVars, mVars>>

\* The payload of line 36: a copy of the queue.
Payload(s) == [type |-> "metrics", metrics |-> s.metrics_queue]

\* _upload_metrics that empties the queue as soon as the payload is built.
UploadMetrics_ClearAtSend ==
    /\ mstate = "idle"
    /\ mreq' = Payload(self)
    /\ mstate' = "inflight"
    /\ self' = [self EXCEPT !.metrics_queue = EmptyQueue]
    /\ mSentAt' = now
    /\ raised' = "none"
    /\ op' = "_upload_metrics"
    /\ UNCHANGED <<ctorVars, clkVars, upVars, trainer, pcC, exc, hbLoops,
                   hbVars, mres>>

\* _upload_metrics (lines 35-37): the payload is handed to smart_request.
UploadMetrics ==
    /\ mstate = "idle"
    /\ mreq' = Payload(self)
    /\ mstate' = "inflight"
    /\ mSentAt' = now
    /\ raised' = "none"
    /\ op' = "_upload_metrics"
    /\ UNCHANGED <<self, ctorVars, clkVars, upVars, trainer, pcC, exc, hbLoops,
                   hbVars, mres>>

\* The metrics request ends, well or not; _upload_metrics has kept neither the
\* payload nor the result, and nothing happens to the session.
MetricsReply ==
    /\ mstate = "inflight"
    /\ mstate' = "idle"
    /\ mres' \in {"ok", "failed"}
    /\ op' = "metrics_reply"
    /\ UNCHANGED <<self, ctorVars, trVars, pcC, exc, hbLoops, hbVars, mreq>>

\* ------------------------------------------------------ checkpoint upload
\* Path(weights).is_file() (line 42).
IsFile(weights) == weights # NotAFile

\* Lines 41-44: the bytes of the weights file, None when it is no file.
ReadWeights(weights) == IF IsFile(weights) THEN weights ELSE None

\* Lines 46, 57: f'{self.api_url}/upload'.
UploadUrl(s) == Append(s.api_url, "upload")

\* Lines 57-64: the request of an epoch checkpoint.
EpochRequest(s, c) ==
    [url |-> UploadUrl(s),
     data |-> [epoch |-> c.epoch, type |-> "epoch", isBest |-> c.is_best],
     files |-> [name |-> "last.pt", content |-> ReadWeights(c.weights)],
     retry |-> NotPassed, timeout |-> NotPassed, code |-> 3]

\* The final branch makes the epoch request.
FinalRequest_AsEpoch(s, c) == EpochRequest(s, c)

\* Lines 46-55: the request of the final checkpoint.
FinalRequest(s, c) ==
    [url |-> UploadUrl(s),
     data |-> [epoch |-> c.epoch, type |-> "final", map |-> c.map],
     files |-> [name |-> "best.pt", content |-> ReadWeights(c.weights)],
     retry |-> 10, timeout |-> 3600, code |-> 4]

\* smart_request's retry budget when the call passes none.
DefaultRetry == 3

\* smart_request: the retries a request may take.
RetryBudget(req) == IF req.retry = NotPassed THEN DefaultRetry ELSE req.retry

\* smart_request: one attempt on a transport that works, the whole budget and
\* the first attempt on one that keeps failing.
Attempts(req, transport) ==
    IF transport = "up" THEN 1 ELSE RetryBudget(req) + 1

\* What the transport does with the request: works at once, or keeps failing
\* and ends by returning or by raising.
Outcomes ==
    {[transport |-> "up", exhaust |-> "none"]}
    \cup {[transport |-> "down", exhaust |-> x] : x \in Exhausts}

\* The calls of _upload_model: an epoch checkpoint passes is_best and leaves
\* map at 0.0, the final one passes map and leaves is_best at False.
UploadCalls ==
    {[epoch |-> e, weights |-> w, is_best |-> b, map |-> 0, final |-> FALSE,
      transport |-> o.transport, exhaust |-> o.exhaust] :
        e \in Epochs, w \in Values \cup {NotAFile}, b \in BOOLEAN,
        o \in Outcomes}
    \cup
    {[epoch |-> e, weights |-> w, is_best |-> FALSE, map |-> m, final |-> TRUE,
      transport |-> o.transport, exhaust |-> o.exhaust] :
        e \in Epochs, w \in Values \cup {NotAFile}, m \in Values,
        o \in Outcomes}

\* _upload_model (lines 39-64): one request whatever the weights path holds;
\* the result of smart_request is dropped and what it raises passes through.
UploadModelOf(calls) ==
    /\ \E c \in calls :
         LET req == IF c.final THEN FinalRequest(self, c)
                               ELSE EpochRequest(self, c)
         IN  /\ ucall' = c
             /\ ureq' = req
             /\ uatt' = Attempts(req, c.transport)
             /\ raised' = IF c.exhaust = "raised"
                          THEN "TransportError" ELSE "none"
             /\ cSentAt' = IF c.final THEN cSentAt ELSE now
    /\ op' = "_upload_model"
    /\ UNCHANGED <<self, ctorVars, clkVars, mSentAt, trainer, pcC, exc,
                   hbLoops, hbVars, mVars>>

UploadModel == UploadModelOf(UploadCalls)

\* The calls the trainer makes while all goes well: the transport works, the
\* first epoch's checkpoint and the final one, the weights saved or not.
PlainCalls ==
    {c \in UploadCalls :
        /\ c.transport = "up"
        /\ c.epoch = 1
        /\ c.weights \in {NotAFile, 1}
        /\ ~c.is_best
        /\ c.map \in {0, 1}}

UploadModelPlain == UploadModelOf(PlainCalls)

\* check_disk_space (lines 81-83): reads self.model['data'].
CheckDiskSpace ==
    /\ IF "model" \notin self.attrs
       THEN raised' = "AttributeError"
       ELSE IF self.model = NoModel
       THEN raised' = "TypeError"
       ELSE raised' \in {"none", "Exception"}
    /\ op' = "check_disk_space"
    /\ UNCHANGED <<self, ctorVars, clkVars, mSentAt, upVars, trainer, pcC, exc,
                   hbLoops, hbVars, mVars>>

\* The events ultralytics.hub.callbacks has a handler for.
Callbacks == {"on_fit_epoch_end", "on_model_save", "on_train_end"}

\* register_callbacks (lines 85-87): every handler goes to the trainer.
RegisterCallbacks ==
    /\ trainer' = trainer \cup Callbacks
    /\ raised' = "none"
    /\ op' = "register_callbacks"
    /\ UNCHANGED <<self, ctorVars, clkVars, mSentAt, upVars, pcC, exc,
                   hbLoops, hbVars, mVars>>

\* The clock advances by a second or by a checkpoint interval.
TickSteps == {1, RateLimits.ckpt}

Tick ==
    /\ ticks < MaxTicks
    /\ \E d \in TickSteps : now' = now + d
    /\ ticks' = ticks + 1
    /\ op' = "tick"
    /\ UNCHANGED <<self, ctorVars, mSentAt, upVars, raised, trainer, pcC, exc,
                   hbLoops, hbVars, mVars>>

Next ==
    \/ HbTest \/ HbSend \/ HbReply \/ HbWake
    \/ Del \/ QueueMetrics \/ UploadMetrics \/ MetricsReply

Spec == Init /\ [][Next]_vars

\* The scheduler runs the heartbeat thread, every send comes back and every
\* sleep ends.
FairSpec == Spec /\ WF_vars(HbStep)

\* The trainer's metrics calls against the clock.
NextMetrics ==
    \/ Tick \/ QueueMetrics \/ UploadMetrics \/ MetricsReply

SpecMetrics == Init /\ [][NextMetrics]_vars

\* The trainer's checkpoint uploads against the clock.
NextUpload ==
    \/ Tick \/ UploadModel

SpecUpload == Init /\ [][NextUpload]_vars

\* Every trainer-facing call beside the heartbeat thread, the clock stopped.
NextOps ==
    \/ HbTest \/ HbSend \/ HbReply \/ HbWake
    \/ Del \/ UploadMetrics \/ MetricsReply
    \/ UploadModelPlain \/ CheckDiskSpace \/ RegisterCallbacks

SpecOps == Init /\ [][NextOps]_vars

\* ------------------------------------------------------------------ claims
HubReady == hub.kind = "record" /\ hub.rec.data = "present"
HasModel ==
    "model" \in self.attrs /\ self.model # NoModel /\ self.model.data = "present"

\* C1 (as claimed): with the hub reachable and the fetched record holding a
\* dataset, construction ends without raising, with alive true, agentId unset
\* and exactly one heartbeat loop started.
C1_Claim ==
    (HubReady /\ CtorDone) =>
        /\ pcC = "returned"
        /\ exc = "none"
        /\ self.alive
        /\ self.agent_id = None
        /\ hbLoops = 1

\* C2 (as claimed): when the record's dataset is absent or empty, construction
\* fails with the dataset-not-ready error and no heartbeat is started or sent.
C2_Claim ==
    (hub.kind = "record" /\ hub.rec.data # "present" /\ CtorDone) =>
        /\ exc = "DatasetNotReady"
        /\ hbLoops = 0
        /\ hbReq = NoReq

C4_AliveMonotone ==
    /\ self.alive
    /\ [][/\ (self.alive' # self.alive) => (op' = "__del__" /\ ~self.alive')
          /\ ~self.alive => ~self.alive']_vars

\* C4's case: the flag is down and the heartbeat thread has stepped since.
C4_Witness == ~self.alive /\ op = "_heartbeats" /\ pcH = "l101"

\* C5 (as claimed): agentId is set only by a successful heartbeat response
\* and, once set, never returns to unset.
C5_Claim ==
    [][/\ (self.agent_id = None /\ self.agent_id' # None) => hbOut'.ok
       /\ self.agent_id # None => self.agent_id' # None]_vars

\* C6 (as claimed): a failed heartbeat send while alive is true leaves the
\* loop running: it goes on to its sleep.
C6_Claim ==
    [][(pcH = "wait" /\ pcH' # "wait" /\ self.alive /\ Failed(hbOut'))
          => pcH' = "l101"]_vars

\* A heartbeat request leaves in this step.
IsSend == pcH = "l92" /\ pcH' = "wait"

\* C7: after alive is set to false at most one heartbeat request is still
\* sent or completed, and none is sent once a sleep has ended with the flag
\* down: the thread goes from that sleep to the loop's test, from the test to
\* Stopped, and stays there, so that a send with the flag down can only be the
\* one that had passed the test before.
C7_CooperativeCancel ==
    [][/\ lateBeats' <= 1
       /\ (IsSend /\ ~self.alive) => (lateBeats = 0 /\ ~sentAlive')
       /\ (~self.alive /\ pcH = "l101") => pcH' \in {"l101", "l91"}
       /\ (~self.alive /\ pcH = "l91") => pcH' \in {"l91", "stopped"}
       /\ pcH = "stopped" => pcH' = "stopped"]_vars

\* C7's case: the flag went down between the loop's test and its send, and the
\* one late request has been sent and has come back.
C7_Witness == ~self.alive /\ lateBeats = 1 /\ ~sentAlive /\ pcH = "stopped"

\* C8 (as claimed): the loop is never Stopped while alive is true, and once
\* alive is false the loop eventually is Stopped.
C8_Claim ==
    /\ [](pcH = "stopped" => ~self.alive)
    /\ (~self.alive) ~> (pcH = "stopped")

\* A metrics request ends in this step.
IsMetricsReply == mstate = "inflight" /\ mstate' = "idle"

\* C9 (as claimed): a successful upload takes the keys it sent, unchanged
\* since, out of the queue; a failed one leaves the queue as it was.
C9_Claim ==
    [][IsMetricsReply =>
         IF mres' = "ok"
         THEN \A k \in Metrics :
                (mreq.metrics[k] # NoValue
                   /\ self.metrics_queue[k] = mreq.metrics[k])
                => self.metrics_queue'[k] = NoValue
         ELSE self.metrics_queue' = self.metrics_queue]_vars

\* C10: a queued value leaves the queue only by a newer enqueue under its name
\* or by the success of an upload whose payload held that very value.
C10_NoMetricLost ==
    [][\A k \in Metrics :
         (self.metrics_queue[k] # NoValue
            /\ self.metrics_queue'[k] # self.metrics_queue[k])
         => \/ (op' = "queue_metrics" /\ self.metrics_queue'[k] # NoValue)
            \/ (IsMetricsReply /\ mres' = "ok"
                  /\ mreq.metrics[k] = self.metrics_queue[k])]_vars

\* C10's case: an upload has been confirmed, and a value queued between its
\* snapshot and its confirmation is still in the queue.
C10_Witness ==
    /\ op = "metrics_reply"
    /\ mres = "ok"
    /\ \E k \in Metrics :
         /\ mreq.metrics[k] = 1
         /\ self.metrics_queue[k] = 2

\* C15: the first heartbeat leaves without any sleep before it, every later
\* one leaves after the thread has slept the heartbeat interval since the one
\* before, and each request is tried once (retry budget 0).
C15_HeartbeatPacing ==
    /\ [](hbElapsed = NoTimer => pcH \in {"l91", "l92", "stopped"})
    /\ [][IsSend =>
            /\ hbReq'.retry = 0
            /\ \/ hbElapsed = NoTimer
               \/ hbElapsed >= self.rate_limits.heartbeat]_vars

\* C15's case: a second heartbeat is in flight, the interval slept before it.
C15_Witness ==
    /\ pcH = "wait"
    /\ hbElapsed = 0
    /\ hbOut # NoReply
    /\ hbReq.retry = 0

\* C16 (as claimed): a heartbeat request carries the session's model id and
\* agent id, the agent id changes only on a successful heartbeat response and
\* a failed one leaves it as it was.
C16_Claim ==
    [][/\ IsSend =>
            hbReq' = [url |-> HeartbeatUrl(self.model_id),
                      agentId |-> self.agent_id, retry |-> 0]
       /\ (self.agent_id' # self.agent_id) => (pcH = "wait" /\ hbOut'.ok)
       /\ (pcH = "wait" /\ pcH' # "wait" /\ Failed(hbOut'))
             => self.agent_id' = self.agent_id]_vars

IsMetricsSend == mstate = "idle" /\ mstate' = "inflight"

\* C11 (as claimed): a metrics request is sent only if none was sent before
\* or at least the metrics interval has passed since the last one.
C11_Claim ==
    [][IsMetricsSend =>
          \/ mSentAt = NoTimer
          \/ now - mSentAt >= self.rate_limits.metrics]_vars

\* C12 (as claimed): on a transport that keeps failing, the final upload
\* takes 11 attempts and raises to the caller; an epoch upload takes its
\* smaller budget and one attempts and returns without raising.
C12_Claim ==
    (ucall.transport = "down") =>
        IF ucall.final
        THEN uatt = 10 + 1 /\ raised = "TransportError"
        ELSE uatt = DefaultRetry + 1 /\ uatt < 10 + 1 /\ raised = "none"

\* C13: whatever the clock reads, a call with final=True makes one request to
\* the upload URL, of type "final", carrying the call's map score, with retry
\* budget 10 and a timeout of 3600 s.
C13_FinalAlwaysSent ==
    ucall.final =>
        /\ ureq.url = UploadUrl(self)
        /\ ureq.data.type = "final"
        /\ ureq.data.map = ucall.map
        /\ ureq.retry = 10
        /\ ureq.timeout = 3600

\* C13's case: the final upload went out less than a checkpoint interval
\* after an epoch upload.
C13_Witness ==
    /\ ucall.final
    /\ cSentAt # NoTimer
    /\ now - cSentAt < self.rate_limits.ckpt
    /\ ureq.data.type = "final"
    /\ ureq.data.map = MaxValue

IsEpochUpload == op' = "_upload_model" /\ ~ucall'.final

\* C14 (as claimed): an epoch checkpoint request is sent only if none was
\* sent before or at least 900 s have passed since the last one.
C14_Claim ==
    [][IsEpochUpload =>
          \/ cSentAt = NoTimer
          \/ now - cSentAt >= self.rate_limits.ckpt]_vars

TrainerOps ==
    {"_upload_metrics", "metrics_reply", "_upload_model", "check_disk_space",
     "register_callbacks", "__del__"}

\* C17: a step of the heartbeat thread changes no attribute of the session
\* but agent_id and nothing the trainer's calls work on; no trainer-facing
\* call (metrics upload, checkpoint upload, disk-space check, callback
\* registration, teardown) changes agent_id.
C17_Frame ==
    [][/\ op' = "_heartbeats" =>
            /\ [self' EXCEPT !.agent_id = None] = [self EXCEPT !.agent_id = None]
            /\ UNCHANGED <<mVars, trVars>>
       /\ op' \in TrainerOps => self.agent_id' = self.agent_id]_vars

\* C17's case: the hub has handed out an agent id, the session is torn down,
\* metrics and a checkpoint have been uploaded, the callbacks registered and
\* the disk-space check is the last call made.
C17_Witness ==
    /\ self.agent_id # None
    /\ ~self.alive
    /\ mreq # NoPayload
    /\ ucall # NoCall
    /\ trainer # {}
    /\ op = "check_disk_space"

\* C19 (as claimed): the file part of an upload request holds the bytes of
\* the weights file, under best.pt for the final upload and last.pt
\* otherwise, and no request is made when the weights path is not a file.
C19_Claim ==
    (ucall # NoCall) =>
        IF IsFile(ucall.weights)
        THEN /\ ureq.files.content = ucall.weights
             /\ ureq.files.name = IF ucall.final THEN "best.pt" ELSE "last.pt"
        ELSE ureq = NoUpload

=============================================================================
